---- MODULE Spec2Model ----
(***************************************************************************)
(* Model of utils/TowerManager.py: a TowerManager holds a tower table      *)
(* (database), a query point (location) and a list of networks.            *)
(* location_coverage() reduces the table to a square box around the query  *)
(* point (reduced_database, a recursion on the box radius), finds the      *)
(* closest tower of every operator (locate_closest_towers) and projects    *)
(* the coverage flags of those towers (find_towers_coverage).              *)
(*                                                                         *)
(* Coordinates are integers (a grid of whole degrees).  The code compares  *)
(* sqrt(dlat^2 + dlon^2) values with < only; sqrt is strictly increasing   *)
(* and exact on the perfect squares used here, so the model keeps the      *)
(* squared distance and compares it with the square of the other side.     *)
(***************************************************************************)
EXTENDS Integers, Sequences, FiniteSets, TLC

VARIABLES
    location,         \* self.location: [latitude, longitude]
    database,         \* self.database: sequence of rows, in table order
    networks,         \* self.networks: a list of column names
    tower_indexes,    \* self.tower_indexes: operator -> row index label
    towers_coverage,  \* self.towers_coverage: label -> (network -> 'true'/'false')
    pc,               \* position of the running call: "idle", "reduce", "locate", "coverage"
    caller,           \* which public method is (or was last) running
    area0,            \* the area argument of the outermost reduced_database frame
    area,             \* the area argument of the innermost reduced_database frame
    ret,              \* the value reduced_database returned (<<>> before it returns)
    raised,           \* the exception the last call ended with, or "none"
    database0         \* history: the table the manager held after construction

vars == <<location, database, networks, tower_indexes, towers_coverage,
          pc, caller, area0, area, ret, raised, database0>>

-----------------------------------------------------------------------------
(* Program constants *)

\* minimums[op] = (100.0, 0): the placeholder distance and row label
Sentinel == 100
PlaceholderIndex == 0
\* len(set(ret['Operateur'])) < 4
OperatorThreshold == 4
\* def reduced_database(self, area=1)
DefaultArea == 1

(* Bounds of the model *)

\* rows of a table of the near family that are drawn freely
MaxFreeRows == 3
\* largest initial radius of a direct reduced_database(area=r0) call
MaxInitialArea == 2
\* retries explored after the box already holds the whole table
MaxExtraRetries == 1

-----------------------------------------------------------------------------
(* Tables *)

NetworkColumns == {"2G", "3G", "4G"}

Tower(op, lat, lon, g2, g3, g4) ==
    [Operateur |-> op, Latitude |-> lat, Longitude |-> lon]
        @@ ("2G" :> g2) @@ ("3G" :> g3) @@ ("4G" :> g4)

\* A table as read_csv builds it: row i (from 0) carries the index label i.
Indexed(towers) ==
    [i \in 1..Len(towers) |-> towers[i] @@ ("index" :> (i - 1))]

\* Towers near the query point.  Operators are 1..5.
NearTowers ==
    { Tower(1, 0, 0, 1, 0, 1),
      Tower(2, 0, 1, 0, 1, 0),
      Tower(3, 0, 0, 1, 1, 0),
      Tower(4, 3, 3, 0, 0, 1),
      Tower(4, 4, 0, 1, 1, 1),
      Tower(5, 1, 1, 0, 0, 0) }

\* Two towers at the query point that every table of the near family has,
\* before or after its free rows.
AnchorTowers == << Tower(1, 0, 0, 1, 0, 1), Tower(3, 0, 0, 1, 1, 0) >>

NearDatasets ==
    { AnchorTowers \o free : free \in [1..MaxFreeRows -> NearTowers] }
        \cup { free \o AnchorTowers : free \in [1..MaxFreeRows -> NearTowers] }

\* Towers a hundred degrees of longitude away and more.
FarTower      == Tower(4, 0, 100, 0, 1, 1)
FarTowerWest  == Tower(4, 0, -100, 1, 0, 0)
FartherTower  == Tower(1, 0, 101, 0, 0, 1)

FarDatasets ==
    { <<first, Tower(1, 0, 0, 1, 0, 1), Tower(2, 0, 1, 0, 1, 0),
        Tower(3, 0, 0, 1, 1, 0), a, b>> :
        first \in {FartherTower, Tower(2, 1, 1, 1, 1, 1)},
        a \in {FarTower, FarTowerWest},
        b \in {FarTower, FarTowerWest, Tower(4, 3, 3, 0, 0, 1)} }

Locations == { [latitude |-> 0, longitude |-> 0], [latitude |-> 1, longitude |-> 0] }

\* self.networks = ['2G', '3G', '4G'] when none are given
DefaultNetworks == <<"2G", "3G", "4G">>

NetworkLists == { DefaultNetworks, <<"4G", "2G">> }

InitialAreas == 0..MaxInitialArea

-----------------------------------------------------------------------------
(* Helpers *)

Range(s) == { s[i] : i \in DOMAIN s }

Abs(x) == IF x < 0 THEN -x ELSE x

Max(S) == CHOOSE x \in S : \A y \in S : y <= x

\* set(db['Operateur'])
Operators(db) == { db[i].Operateur : i \in DOMAIN db }

\* operator_code[operator]: the display label of an operator code
OperatorCode(op) == <<"Orange", "SFR", "Free", "Bouygue", "Other">>[op]

\* the dictionary with its two values exchanged
TFSwapped == (1 :> "false") @@ (0 :> "true")

\* t_f = {1: 'true', 0: 'false'}
TF == (1 :> "true") @@ (0 :> "false")

-----------------------------------------------------------------------------
(* reduced_database *)

\* the row filter with <= and >= for < and >
InBoxClosed(row, loc, a) ==
    /\ row.Latitude >= (loc.latitude - a)
    /\ row.Latitude <= (loc.latitude + a)
    /\ row.Longitude >= (loc.longitude - a)
    /\ row.Longitude <= (loc.longitude + a)

\* The row filter of reduced_database: strictly inside the square of half
\* side a around the location.
InBox(row, loc, a) ==
    /\ row.Latitude > (loc.latitude - a)
    /\ row.Latitude < (loc.latitude + a)
    /\ row.Longitude > (loc.longitude - a)
    /\ row.Longitude < (loc.longitude + a)

\* ret = self.database.loc[...]: the rows that pass, in table order, with
\* their index labels.
BoxFilter(db, loc, a) == SelectSeq(db, LAMBDA row : InBox(row, loc, a))

\* the test with <= for <
NeedsRetryInclusive(region) == Cardinality(Operators(region)) <= OperatorThreshold

\* len(set(ret['Operateur'])) < 4
NeedsRetry(region) == Cardinality(Operators(region)) < OperatorThreshold

\* return self.reduced_database(area=area + 1)
NextArea(a) == a + 1

\* The smallest radius whose box holds every row of the table; a larger box
\* selects the same rows.
CoverRadius(db, loc) ==
    IF db = <<>> THEN 0
    ELSE Max({ Max({Abs(db[i].Latitude - loc.latitude),
                    Abs(db[i].Longitude - loc.longitude)}) : i \in DOMAIN db }) + 1

-----------------------------------------------------------------------------
(* locate_closest_towers *)

\* (dist_lat ** 2) + (dist_ln ** 2), the square of dist
Dist2(loc, row) ==
    ((loc.latitude - row.Latitude) * (loc.latitude - row.Latitude))
        + ((loc.longitude - row.Longitude) * (loc.longitude - row.Longitude))

\* minimums[op] = (100.0, 0) for op in set(self.database['Operateur'])
InitialMinimums(db) ==
    [op \in Operators(db) |-> <<Sentinel * Sentinel, PlaceholderIndex>>]

\* if dist < minimums[op][0]
Closer(dist2, best2) == dist2 < best2

\* for index, row in self.database.iterrows(): ... from row i on
RECURSIVE ScanRows(_, _, _, _)
ScanRows(db, loc, i, minimums) ==
    IF i > Len(db) THEN minimums
    ELSE LET row == db[i]
             op == row.Operateur
             dist2 == Dist2(loc, row)
         IN ScanRows(db, loc, i + 1,
                     IF Closer(dist2, minimums[op][1])
                        THEN [minimums EXCEPT ![op] = <<dist2, row.index>>]
                        ELSE minimums)

Minimums(db, loc) == ScanRows(db, loc, 1, InitialMinimums(db))

\* self.tower_indexes[operator] = values[1], for every operator of minimums;
\* entries of other operators stay.
UpdatedIndexes(old, minimums) ==
    [op \in (DOMAIN old) \cup (DOMAIN minimums) |->
        IF op \in DOMAIN minimums THEN minimums[op][2] ELSE old[op]]

-----------------------------------------------------------------------------
(* find_towers_coverage *)

HasRow(db, index) == \E i \in DOMAIN db : db[i].index = index

\* the row self.database.at[index, ...] reads
RowAt(db, index) == db[CHOOSE i \in DOMAIN db : db[i].index = index]

\* the dictionary filled for one operator: net -> t_f[self.database.at[index, net]]
CoverageOf(db, index, nets) ==
    [net \in Range(nets) |-> TF[RowAt(db, index)[net]]]

\* towers_coverage after the loop has handled the operators of done.
FilledCoverage(old, db, indexes, nets, done) ==
    [label \in (DOMAIN old) \cup { OperatorCode(op) : op \in done } |->
        IF \E op \in done : OperatorCode(op) = label
           THEN CoverageOf(db, indexes[CHOOSE op \in done : OperatorCode(op) = label], nets)
           ELSE old[label]]

\* the empty dictionary created for an operator before its row is read
EmptyDict == [net \in {} |-> "false"]

-----------------------------------------------------------------------------
(* The state machine *)

Init ==
    /\ location \in Locations
    /\ networks \in NetworkLists
    /\ \E towers \in NearDatasets \cup FarDatasets : database = Indexed(towers)
    /\ database0 = database
    /\ tower_indexes = << >>
    /\ towers_coverage = << >>
    /\ pc = "idle"
    /\ caller = "none"
    /\ area0 = DefaultArea
    /\ area = DefaultArea
    /\ ret = << >>
    /\ raised = "none"

\* location_coverage() is called: its first statement calls reduced_database()
CallLocationCoverage ==
    /\ pc = "idle"
    /\ pc' = "reduce"
    /\ caller' = "location_coverage"
    /\ area0' = DefaultArea
    /\ area' = DefaultArea
    /\ ret' = << >>
    /\ raised' = "none"
    /\ UNCHANGED <<location, database, networks, tower_indexes, towers_coverage, database0>>

\* reduced_database(area=r0) is called on its own
CallReducedDatabase(r0) ==
    /\ pc = "idle"
    /\ pc' = "reduce"
    /\ caller' = "reduced_database"
    /\ area0' = r0
    /\ area' = r0
    /\ ret' = << >>
    /\ raised' = "none"
    /\ UNCHANGED <<location, database, networks, tower_indexes, towers_coverage, database0>>

\* the box holds fewer than 4 operators: recurse with area + 1
ReduceRetry ==
    /\ pc = "reduce"
    /\ NeedsRetry(BoxFilter(database, location, area))
    /\ area < CoverRadius(database, location) + MaxExtraRetries
    /\ area' = NextArea(area)
    /\ UNCHANGED <<location, database, networks, tower_indexes, towers_coverage,
                   pc, caller, area0, ret, raised, database0>>

\* the box holds 4 operators or more: every frame returns it;
\* location_coverage stores it as self.database
ReduceReturn ==
    /\ pc = "reduce"
    /\ ~NeedsRetry(BoxFilter(database, location, area))
    /\ ret' = BoxFilter(database, location, area)
    /\ IF caller = "location_coverage"
          THEN database' = ret' /\ pc' = "locate"
          ELSE database' = database /\ pc' = "idle"
    /\ UNCHANGED <<location, networks, tower_indexes, towers_coverage,
                   caller, area0, area, raised, database0>>

LocateClosestTowers ==
    /\ pc = "locate"
    /\ tower_indexes' = UpdatedIndexes(tower_indexes, Minimums(database, location))
    /\ pc' = "coverage"
    /\ UNCHANGED <<location, database, networks, towers_coverage,
                   caller, area0, area, ret, raised, database0>>

\* every recorded row is in the table: the loop runs to its end
FindTowersCoverage ==
    /\ pc = "coverage"
    /\ \A op \in DOMAIN tower_indexes : HasRow(database, tower_indexes[op])
    /\ towers_coverage' = FilledCoverage(towers_coverage, database, tower_indexes,
                                         networks, DOMAIN tower_indexes)
    /\ pc' = "idle"
    /\ UNCHANGED <<location, database, networks, tower_indexes,
                   caller, area0, area, ret, raised, database0>>

\* a recorded row is not in the table: self.database.at raises KeyError at
\* the first such operator of the dictionary's order, which the set() of
\* locate_closest_towers fixed; the operators before it are filled
FindTowersCoverageKeyError ==
    /\ pc = "coverage"
    /\ \E failing \in DOMAIN tower_indexes :
         /\ ~HasRow(database, tower_indexes[failing])
         /\ \E done \in SUBSET { op \in DOMAIN tower_indexes :
                                   HasRow(database, tower_indexes[op]) } :
              towers_coverage' =
                  [label \in (DOMAIN FilledCoverage(towers_coverage, database,
                                                    tower_indexes, networks, done))
                             \cup {OperatorCode(failing)} |->
                      IF label = OperatorCode(failing) THEN EmptyDict
                      ELSE FilledCoverage(towers_coverage, database, tower_indexes,
                                          networks, done)[label]]
    /\ raised' = "KeyError"
    /\ pc' = "idle"
    /\ UNCHANGED <<location, database, networks, tower_indexes,
                   caller, area0, area, ret, database0>>

Next ==
    \/ CallLocationCoverage
    \/ \E r0 \in InitialAreas : CallReducedDatabase(r0)
    \/ ReduceRetry
    \/ ReduceReturn
    \/ LocateClosestTowers
    \/ FindTowersCoverage
    \/ FindTowersCoverageKeyError

Spec == Init /\ [][Next]_vars

\* A call that has started runs on: the interpreter executes every statement
\* of the running method.  Nothing obliges the caller to start a call.  The
\* networks play no part in the reduction, so the default list stands for all.
InitDefaultNetworks == Init /\ networks = DefaultNetworks

FairSpec ==
    /\ InitDefaultNetworks
    /\ [][Next]_vars
    /\ WF_vars(ReduceRetry)
    /\ WF_vars(ReduceReturn)
    /\ WF_vars(LocateClosestTowers)
    /\ WF_vars(FindTowersCoverage)
    /\ WF_vars(FindTowersCoverageKeyError)

-----------------------------------------------------------------------------
(* Vocabulary of the properties, stated without the operators above *)

RowsOf(db, op) == { i \in DOMAIN db : db[i].Operateur = op }

SquaredDistance(q, row) ==
    (row.Latitude - q.latitude) ^ 2 + (row.Longitude - q.longitude) ^ 2

\* row i of db is a row of op at the least distance from q among op's rows
IsNearestOf(db, q, op, i) ==
    /\ i \in RowsOf(db, op)
    /\ \A j \in RowsOf(db, op) : SquaredDistance(q, db[i]) <= SquaredDistance(q, db[j])

\* the first row, in table order, among the nearest rows of op
FirstNearestOf(db, q, op) ==
    CHOOSE i \in DOMAIN db :
        /\ IsNearestOf(db, q, op, i)
        /\ \A j \in DOMAIN db : IsNearestOf(db, q, op, j) => i <= j

\* the rows strictly inside the open square of half side r around q
OpenSquareRows(db, q, r) ==
    SelectSeq(db, LAMBDA row : /\ Abs(row.Latitude - q.latitude) < r
                               /\ Abs(row.Longitude - q.longitude) < r)

Sufficient(db, q, r) == Cardinality(Operators(OpenSquareRows(db, q, r))) >= 4

\* r is the smallest radius of {from, from + 1, ...} whose open square holds
\* 4 operators
IsSmallestSufficient(db, q, from, r) ==
    /\ r >= from
    /\ Sufficient(db, q, r)
    /\ \A s \in from..(r - 1) : ~Sufficient(db, q, s)

Canonical(flag) == IF flag = 1 THEN "true" ELSE "false"

LocationCoverageDone ==
    pc = "idle" /\ caller = "location_coverage" /\ raised = "none"

ReducedDatabaseReturned == pc # "reduce" /\ ret # << >>

-----------------------------------------------------------------------------
(* Properties *)

\* C1: after location_coverage(), the tower reported for every operator of
\* the result is a tower of that operator at the least distance from the
\* query point among all towers of that operator in the full table.
C1_NearestInFullDataset ==
    LocationCoverageDone =>
        \A op \in DOMAIN tower_indexes :
            \E i \in DOMAIN database0 :
                /\ database0[i].index = tower_indexes[op]
                /\ IsNearestOf(database0, location, op, i)

\* C2: the region reduced_database() returns holds a row of every operator
\* of the table it was called on.
C2_RegionHoldsEveryOperator ==
    [][ (pc = "reduce" /\ pc' # "reduce")
        => Operators(database) \subseteq Operators(ret') ]_vars

C4_LocateReturnsNearest ==
    pc = "coverage" =>
        \A op \in Operators(database) :
            \E i \in DOMAIN database :
                /\ database[i].index = tower_indexes[op]
                /\ IsNearestOf(database, location, op, i)

\* C5: after find_towers_coverage(), the report has one entry per operator
\* of tower_indexes, under the operator's label; the entry's networks are
\* the configured ones, each with the true/false form of the flag of the
\* row tower_indexes records for the operator.
C5_CoverageProjection ==
    LocationCoverageDone =>
        /\ DOMAIN towers_coverage = { OperatorCode(op) : op \in DOMAIN tower_indexes }
        /\ Cardinality(DOMAIN towers_coverage) = Cardinality(DOMAIN tower_indexes)
        /\ \A op \in DOMAIN tower_indexes :
              /\ DOMAIN towers_coverage[OperatorCode(op)] = Range(networks)
              /\ \E i \in DOMAIN database : database[i].index = tower_indexes[op]
              /\ \A i \in DOMAIN database : \A net \in Range(networks) :
                    database[i].index = tower_indexes[op] =>
                        towers_coverage[OperatorCode(op)][net] = Canonical(database[i][net])

\* a finished report over a proper subset of the network columns, with a
\* covered and an uncovered network under one label
C5_Witness ==
    /\ LocationCoverageDone
    /\ Range(networks) # NetworkColumns
    /\ \E label \in DOMAIN towers_coverage :
          /\ towers_coverage[label]["4G"] = "true"
          /\ towers_coverage[label]["2G"] = "false"

\* C6: on a table with fewer than 4 operators, once the box holds the whole
\* table (no larger radius can add an operator) the reduction stops with an
\* explicit UnboundedExpansionError instead of growing the radius again.
C6_ExpansionIsCapped ==
    [][ ( /\ pc = "reduce"
          /\ Cardinality(Operators(database)) < 4
          /\ OpenSquareRows(database, location, area) = database )
        => (pc' = "idle" /\ raised' = "UnboundedExpansionError") ]_vars

\* C7: the manager's table always has the rows it had after construction.
C7_DatasetReadOnly == database = database0

C9_FirstEncounteredWinsTies ==
    pc = "coverage" =>
        \A op \in Operators(database) :
            (\E i, j \in DOMAIN database :
                i # j /\ IsNearestOf(database, location, op, i)
                      /\ IsNearestOf(database, location, op, j))
            => tower_indexes[op] = database[FirstNearestOf(database, location, op)].index

\* C10: after locate_closest_towers(), every key of tower_indexes maps to a
\* row of the region whose Operateur is that key, and find_towers_coverage()
\* never fails on a missing row.
C10_IndexConsistent ==
    /\ pc = "coverage" =>
          \A op \in DOMAIN tower_indexes :
              \E i \in DOMAIN database :
                  /\ database[i].index = tower_indexes[op]
                  /\ database[i].Operateur = op
    /\ raised # "KeyError"

====
